---- MODULE Spec2Model ----
(***************************************************************************)
(* A model of three pieces of the datetime crate:                          *)
(*   - Date::yd            (src/src/cal/local/date_from_yd.rs)             *)
(*   - DateFormat / FormatParser / Field::format  (src/src/format.rs)      *)
(*   - sys_time            (src/src/system.rs)                             *)
(* Positions in strings are zero-based as in the Rust code; TLA+ sequences *)
(* are one-based, so the character at offset p of input is input[p + 1].   *)
(* Option<T> is a sequence of length 0 (None) or 1 (Some).                 *)
(***************************************************************************)
EXTENDS Integers, Sequences, FiniteSets, TLC

VARIABLES
    ydCall,     \* the arguments of the last Date::yd call
    ydRes,      \* the Result<Date> it returned
    tv,         \* the timespec clock_gettime filled in
    now,        \* the pair sys_time returned
    input,      \* FormatParser.input
    iter,       \* FormatParser.iter: offset of the next character to read
    fields,     \* FormatParser.fields
    anchor,     \* FormatParser.anchor
    pc,         \* position of the DateFormat::parse / format caller
    result,     \* what DateFormat::parse returned
    output      \* what DateFormat::format returned

dateVars  == <<ydCall, ydRes>>
clockVars == <<tv, now>>
fmtVars   == <<input, iter, fields, anchor, pc, result, output>>
vars      == <<ydCall, ydRes, tv, now, input, iter, fields, anchor, pc, result, output>>

None    == <<>>
Some(x) == <<x>>

------------------------------------------------------------------------------
(* Bounds of the model                                                      *)

\* years within YearRadius of each of the centre years are explored
YearRadius == 3
\* yearday arguments range over -YeardaySlack .. 366 + YeardaySlack
YeardaySlack == 3
\* templates of the parser specification have at most MaxLen characters
MaxLen == 6
\* templates of the grammar specification have at most MaxGrammarLen characters
MaxGrammarLen == 4
\* clock readings have tv_sec in 0 .. MaxSec
MaxSec == 3

YearCentres == {0, 1900, 2000, 2015}
Years == UNION {(c - YearRadius) .. (c + YearRadius) : c \in YearCentres}
Yeardays == (0 - YeardaySlack) .. (366 + YeardaySlack)

------------------------------------------------------------------------------
(* Calendar conversions (cal::unit::Year, cal::local::DaysSinceEpoch,       *)
(* cal::local::Date and the DatePiece accessors).                           *)

is_leap_year(year) ==
    (year % 4 = 0) /\ ((year % 100 # 0) \/ (year % 400 = 0))

\* DaysSinceEpoch::from(YearMonthDay): proleptic Gregorian day number, day 0
\* of a month being the day before its first day.
DaysSinceEpoch_from(ymd) ==
    LET y   == IF ymd.month <= 2 THEN ymd.year - 1 ELSE ymd.year
        era == y \div 400
        yoe == y - era * 400
        mp  == IF ymd.month > 2 THEN ymd.month - 3 ELSE ymd.month + 9
        doy == ((153 * mp + 2) \div 5) + ymd.day - 1
        doe == yoe * 365 + (yoe \div 4) - (yoe \div 100) + doy
    IN  era * 146097 + doe - 719468

\* DaysSinceEpoch::add
days_add(days, n) == days + n

\* Date::from(DaysSinceEpoch): a Date is its day count
Date_from(days) == days

\* The (year, month, day) a day count stands for.
ymd_of(date) ==
    LET z   == date + 719468
        era == z \div 146097
        doe == z - era * 146097
        yoe == (doe - (doe \div 1460) + (doe \div 36524) - (doe \div 146096)) \div 365
        doy == doe - (365 * yoe + (yoe \div 4) - (yoe \div 100))
        mp  == (5 * doy + 2) \div 153
        d   == doy - ((153 * mp + 2) \div 5) + 1
        m   == IF mp < 10 THEN mp + 3 ELSE mp - 9
        y   == yoe + era * 400
    IN  [year |-> IF m <= 2 THEN y + 1 ELSE y, month |-> m, day |-> d]

year(date)  == ymd_of(date).year
month(date) == ymd_of(date).month
day(date)   == ymd_of(date).day

days_before_month(m, leap) ==
    LET common == <<0, 31, 59, 90, 120, 151, 181, 212, 243, 273, 304, 334>>
    IN  common[m] + (IF leap /\ m > 2 THEN 1 ELSE 0)

\* DatePiece::yearday: 1 for the first of January
yearday(date) ==
    LET ymd == ymd_of(date)
    IN  days_before_month(ymd.month, is_leap_year(ymd.year)) + ymd.day

\* DatePiece::weekday, 0 = Sunday .. 6 = Saturday (day 0 is a Thursday)
weekday(date) == (date + 4) % 7

\* DatePiece::year_of_century
year_of_century(date) == year(date) % 100

------------------------------------------------------------------------------
(* Date::yd                                                                 *)

\* days_in_year with both bounds one lower
days_in_year_tight(y) == IF is_leap_year(y) THEN 366 ELSE 365

\* `let days_in_year = if year.is_leap_year() { 367 } else { 366 };`
days_in_year(y) == IF is_leap_year(y) THEN 367 ELSE 366

\* check_range over lo..=hi, the upper end included
check_range_inclusive(value, lo, hi) == lo <= value /\ value <= hi

\* range_check: value.check_range(lo..hi), the upper end excluded
check_range(value, lo, hi) == lo <= value /\ value < hi

\* `YearMonthDay { year: year, month: Month::January, day: 0 }`
jan_1(y) == [year |-> y, month |-> 1, day |-> 0]

yd(y, n) ==
    IF ~check_range(n, 0, days_in_year(y))
    THEN [kind |-> "RangeError", value |-> n, lo |-> 0, hi |-> days_in_year(y)]
    ELSE [kind |-> "Ok",
          date |-> Date_from(days_add(DaysSinceEpoch_from(jan_1(y)), n))]

\* Every Date whose year is one of Years
DateWindows ==
    UNION { DaysSinceEpoch_from([year |-> c - YearRadius, month |-> 1, day |-> 1]) ..
            DaysSinceEpoch_from([year |-> c + YearRadius, month |-> 12, day |-> 31])
            : c \in YearCentres }

\* The calls the model explores: Date::yd on a year and a yearday, and the
\* quickcheck test `yeardays` on a Date.
YdCalls ==
    {[op |-> "yd", year |-> y, yearday |-> n] : y \in Years, n \in Yeardays}
    \cup {[op |-> "yeardays", ymd |-> d] : d \in DateWindows}

InitDate ==
    /\ ydCall \in YdCalls
    /\ ydRes = [kind |-> "pending"]

IdleDate ==
    /\ ydCall = [op |-> "none"]
    /\ ydRes = [kind |-> "none"]

\* A caller passes a year and a yearday to Date::yd.
YdCall ==
    /\ ydCall.op = "yd"
    /\ ydRes.kind = "pending"
    /\ ydRes' = yd(ydCall.year, ydCall.yearday)
    /\ UNCHANGED <<ydCall, clockVars, fmtVars>>

\* quickcheck_test::yeardays: rebuild a Date from its own year and yearday.
YdOfDate ==
    /\ ydCall.op = "yeardays"
    /\ ydRes.kind = "pending"
    /\ ydRes' = yd(year(ydCall.ymd), yearday(ydCall.ymd))
    /\ UNCHANGED <<ydCall, clockVars, fmtVars>>

------------------------------------------------------------------------------
(* sys_time                                                                 *)

\* Rust's `as i16`: keep the low 16 bits, two's complement
as_i16(x) == ((x + 32768) % 65536) - 32768

\* `(tv.tv_nsec / 1000) as i16`
subsec_of(nsec) == as_i16(nsec \div 1000)

\* tv_nsec values around every place the 16-bit conversion wraps or the
\* millisecond changes
NsecReadings ==
    { ms * 1000000 + us * 1000 + ns :
        ms \in {0, 1, 32, 33, 65, 66, 500, 999},
        us \in {0, 1, 767, 768, 999},
        ns \in {0, 999} }

\* The clock reading is the environment's; no call has returned yet.
InitClock ==
    /\ tv \in [tv_sec : 0 .. MaxSec, tv_nsec : NsecReadings]
    /\ now = None

IdleClock ==
    /\ tv = [tv_sec |-> 0, tv_nsec |-> 0]
    /\ now = None

\* sys_time: clock_gettime fills in the reading, the pair is built from it.
SysTime ==
    /\ now = None
    /\ now' = Some(<<tv.tv_sec, subsec_of(tv.tv_nsec)>>)
    /\ UNCHANGED <<tv, dateVars, fmtVars>>

------------------------------------------------------------------------------
(* Field, FormatError, Arguments                                            *)

Arguments_empty == [alignment |-> None, width |-> None, pad_char |-> None]

Literal(text)         == [kind |-> "Literal", text |-> text]
Year(a)               == [kind |-> "Year", args |-> a]
YearOfCentury(a)      == [kind |-> "YearOfCentury", args |-> a]
MonthName(long, a)    == [kind |-> "MonthName", long |-> long, args |-> a]
Day(a)                == [kind |-> "Day", args |-> a]
WeekdayName(long, a)  == [kind |-> "WeekdayName", long |-> long, args |-> a]

InvalidChar(c, colon, pos) ==
    [kind |-> "InvalidChar", c |-> c, colon |-> colon, pos |-> pos]
OpenCurlyBrace(open_pos)  == [kind |-> "OpenCurlyBrace", open_pos |-> open_pos]
CloseCurlyBrace(close_pos) == [kind |-> "CloseCurlyBrace", close_pos |-> close_pos]
MissingField(open_pos, close_pos) ==
    [kind |-> "MissingField", open_pos |-> open_pos, close_pos |-> close_pos]

------------------------------------------------------------------------------
(* FormatParser                                                             *)

\* &input[lo .. hi]
slice(inp, lo, hi) == SubSeq(inp, lo + 1, hi)

\* CharIndices::next: the offset and character read, None at the end
next(inp, it) == IF it < Len(inp) THEN Some(<<it, inp[it + 1]>>) ELSE None

\* FormatParser::new
FormatParser_new(inp) == [iter |-> 0, fields |-> <<>>, anchor |-> None]

\* collect_up_to_anchor whose open-ended slice stops one character early
collect_up_to_anchor_short(inp, flds, anch, position) ==
    IF anch # None
    THEN [anchor |-> None,
          fields |-> Append(flds, Literal(
              IF position # None THEN slice(inp, anch[1], position[1])
                                 ELSE slice(inp, anch[1], Len(inp) - 1)))]
    ELSE [anchor |-> anch, fields |-> flds]

collect_up_to_anchor(inp, flds, anch, position) ==
    IF anch # None
    THEN [anchor |-> None,
          fields |-> Append(flds, Literal(
              IF position # None THEN slice(inp, anch[1], position[1])
                                 ELSE slice(inp, anch[1], Len(inp))))]
    ELSE [anchor |-> anch, fields |-> flds]

\* after_colon reporting the colon's offset when the input ends
after_colon_colon_pos(inp, it, open_pos) ==
    LET n == next(inp, it) IN
    IF n = None
    THEN [iter |-> it, ok |-> FALSE, err |-> OpenCurlyBrace(it - 1)]
    ELSE LET pos == n[1][1]
             c   == n[1][2]
         IN  CASE c = "Y" -> [iter |-> it + 1, ok |-> TRUE, field |-> Year(Arguments_empty)]
               [] c = "y" -> [iter |-> it + 1, ok |-> TRUE, field |-> YearOfCentury(Arguments_empty)]
               [] c = "M" -> [iter |-> it + 1, ok |-> TRUE, field |-> MonthName(TRUE, Arguments_empty)]
               [] c = "D" -> [iter |-> it + 1, ok |-> TRUE, field |-> Day(Arguments_empty)]
               [] c = "E" -> [iter |-> it + 1, ok |-> TRUE, field |-> WeekdayName(TRUE, Arguments_empty)]
               [] OTHER   -> [iter |-> it + 1, ok |-> FALSE, err |-> InvalidChar(c, TRUE, pos)]

\* after_colon with the arm for 'y' building Year as the arm for 'Y' does
after_colon_year_twice(inp, it, open_pos) ==
    LET n == next(inp, it) IN
    IF n = None
    THEN [iter |-> it, ok |-> FALSE, err |-> OpenCurlyBrace(open_pos)]
    ELSE LET pos == n[1][1]
             c   == n[1][2]
         IN  CASE c = "Y" -> [iter |-> it + 1, ok |-> TRUE, field |-> Year(Arguments_empty)]
               [] c = "y" -> [iter |-> it + 1, ok |-> TRUE, field |-> Year(Arguments_empty)]
               [] c = "M" -> [iter |-> it + 1, ok |-> TRUE, field |-> MonthName(TRUE, Arguments_empty)]
               [] c = "D" -> [iter |-> it + 1, ok |-> TRUE, field |-> Day(Arguments_empty)]
               [] c = "E" -> [iter |-> it + 1, ok |-> TRUE, field |-> WeekdayName(TRUE, Arguments_empty)]
               [] OTHER   -> [iter |-> it + 1, ok |-> FALSE, err |-> InvalidChar(c, TRUE, pos)]

\* parse_a_thing, the arm `Some((_, ':'))`: the character after the colon
\* chooses the field. it is the offset after the colon.
after_colon(inp, it, open_pos) ==
    LET n == next(inp, it) IN
    IF n = None
    THEN [iter |-> it, ok |-> FALSE, err |-> OpenCurlyBrace(open_pos)]
    ELSE LET pos == n[1][1]
             c   == n[1][2]
         IN  CASE c = "Y" -> [iter |-> it + 1, ok |-> TRUE, field |-> Year(Arguments_empty)]
               [] c = "y" -> [iter |-> it + 1, ok |-> TRUE, field |-> YearOfCentury(Arguments_empty)]
               [] c = "M" -> [iter |-> it + 1, ok |-> TRUE, field |-> MonthName(TRUE, Arguments_empty)]
               [] c = "D" -> [iter |-> it + 1, ok |-> TRUE, field |-> Day(Arguments_empty)]
               [] c = "E" -> [iter |-> it + 1, ok |-> TRUE, field |-> WeekdayName(TRUE, Arguments_empty)]
               [] OTHER   -> [iter |-> it + 1, ok |-> FALSE, err |-> InvalidChar(c, TRUE, pos)]

\* parse_a_thing's loop; bit and first are its locals, and the match on bit
\* after the loop is the arm that reads '}'.
RECURSIVE parse_a_thing_loop(_, _, _, _, _)
parse_a_thing_loop(inp, it, bit, first, open_pos) ==
    LET n == next(inp, it) IN
    IF n = None
    THEN [iter |-> it, ok |-> FALSE, err |-> OpenCurlyBrace(open_pos)]
    ELSE LET pos == n[1][1]
             c   == n[1][2]
         IN  IF c = "{" /\ first
             THEN [iter |-> it + 1, ok |-> TRUE, field |-> Literal(slice(inp, pos, pos + 1))]
             ELSE IF c = ":"
             THEN LET r == after_colon(inp, it + 1, open_pos)
                  IN  IF r.ok
                      THEN parse_a_thing_loop(inp, r.iter, Some(r.field), FALSE, open_pos)
                      ELSE r
             ELSE IF c = "}"
             THEN IF bit # None
                  THEN [iter |-> it + 1, ok |-> TRUE, field |-> bit[1]]
                  ELSE [iter |-> it + 1, ok |-> FALSE, err |-> MissingField(open_pos, pos)]
             ELSE [iter |-> it + 1, ok |-> FALSE, err |-> InvalidChar(c, FALSE, pos)]

parse_a_thing(inp, it, open_pos) == parse_a_thing_loop(inp, it, None, TRUE, open_pos)

\* the arm for '{' without the try!: an error of parse_a_thing is dropped
open_arm_swallow(inp, st, new_pos) ==
    LET c == collect_up_to_anchor(inp, st.fields, st.anchor, Some(new_pos))
        r == parse_a_thing(inp, st.iter + 1, new_pos)
    IN  IF r.ok
        THEN [iter |-> r.iter, fields |-> Append(c.fields, r.field),
              anchor |-> c.anchor, err |-> None, done |-> FALSE]
        ELSE [iter |-> r.iter, fields |-> c.fields,
              anchor |-> c.anchor, err |-> None, done |-> FALSE]

\* parse_format_string, the arm `Some((new_pos, '{'))`
open_arm(inp, st, new_pos) ==
    LET c == collect_up_to_anchor(inp, st.fields, st.anchor, Some(new_pos))
        r == parse_a_thing(inp, st.iter + 1, new_pos)
    IN  IF r.ok
        THEN [iter |-> r.iter, fields |-> Append(c.fields, r.field),
              anchor |-> c.anchor, err |-> None, done |-> FALSE]
        ELSE [iter |-> r.iter, fields |-> c.fields,
              anchor |-> c.anchor, err |-> Some(r.err), done |-> TRUE]

\* parse_format_string, the arm `Some((new_pos, '}'))`
close_arm(inp, st, new_pos) ==
    LET n == next(inp, st.iter + 1) IN
    IF n # None /\ n[1][2] = "}"
    THEN LET c == collect_up_to_anchor(inp, st.fields, st.anchor, Some(new_pos))
         IN  [iter |-> st.iter + 2,
              fields |-> Append(c.fields, Literal(slice(inp, new_pos, new_pos + 1))),
              anchor |-> c.anchor, err |-> None, done |-> FALSE]
    ELSE [iter |-> IF n # None THEN st.iter + 2 ELSE st.iter + 1,
          fields |-> st.fields, anchor |-> st.anchor,
          err |-> Some(CloseCurlyBrace(new_pos)), done |-> TRUE]

\* the arm for other characters without the is_none test: the anchor moves
other_arm_restart(inp, st, pos) ==
    [iter |-> st.iter + 1, fields |-> st.fields,
     anchor |-> Some(pos), err |-> None, done |-> FALSE]

\* parse_format_string, the arm `Some((pos, _))`
other_arm(inp, st, pos) ==
    [iter |-> st.iter + 1, fields |-> st.fields,
     anchor |-> IF st.anchor = None THEN Some(pos) ELSE st.anchor,
     err |-> None, done |-> FALSE]

\* parse_format_string, the arm `None => break` and the final collect
end_arm(inp, st) ==
    LET c == collect_up_to_anchor(inp, st.fields, st.anchor, None)
    IN  [iter |-> st.iter, fields |-> c.fields, anchor |-> c.anchor,
         err |-> None, done |-> TRUE]

\* One iteration of parse_format_string's loop
loop_step(inp, st) ==
    LET n == next(inp, st.iter) IN
    IF n = None THEN end_arm(inp, st)
    ELSE IF n[1][2] = "{" THEN open_arm(inp, st, n[1][1])
    ELSE IF n[1][2] = "}" THEN close_arm(inp, st, n[1][1])
    ELSE other_arm(inp, st, n[1][1])

RECURSIVE parse_format_string(_, _)
parse_format_string(inp, st) ==
    LET s == loop_step(inp, st)
    IN  IF s.done THEN s ELSE parse_format_string(inp, s)

\* DateFormat::parse, given what parse_format_string left in the parser
DateFormat_parse_result(s) ==
    IF s.err # None THEN [kind |-> "Err", err |-> s.err[1]]
                    ELSE [kind |-> "Ok", fields |-> s.fields]

DateFormat_parse(inp) ==
    DateFormat_parse_result(parse_format_string(inp, FormatParser_new(inp)))

------------------------------------------------------------------------------
(* Rendering                                                                *)

long_month_name(m) ==
    <<<<"J", "a", "n", "u", "a", "r", "y">>,
      <<"F", "e", "b", "r", "u", "a", "r", "y">>,
      <<"M", "a", "r", "c", "h">>,
      <<"A", "p", "r", "i", "l">>,
      <<"M", "a", "y">>,
      <<"J", "u", "n", "e">>,
      <<"J", "u", "l", "y">>,
      <<"A", "u", "g", "u", "s", "t">>,
      <<"S", "e", "p", "t", "e", "m", "b", "e", "r">>,
      <<"O", "c", "t", "o", "b", "e", "r">>,
      <<"N", "o", "v", "e", "m", "b", "e", "r">>,
      <<"D", "e", "c", "e", "m", "b", "e", "r">>>>[m]

short_month_name(m) ==
    <<<<"J", "a", "n">>,
      <<"F", "e", "b">>,
      <<"M", "a", "r">>,
      <<"A", "p", "r">>,
      <<"M", "a", "y">>,
      <<"J", "u", "n">>,
      <<"J", "u", "l">>,
      <<"A", "u", "g">>,
      <<"S", "e", "p">>,
      <<"O", "c", "t">>,
      <<"N", "o", "v">>,
      <<"D", "e", "c">>>>[m]

\* indexed by weekday + 1, Sunday first
long_day_name(wd) ==
    <<<<"S", "u", "n", "d", "a", "y">>,
      <<"M", "o", "n", "d", "a", "y">>,
      <<"T", "u", "e", "s", "d", "a", "y">>,
      <<"W", "e", "d", "n", "e", "s", "d", "a", "y">>,
      <<"T", "h", "u", "r", "s", "d", "a", "y">>,
      <<"F", "r", "i", "d", "a", "y">>,
      <<"S", "a", "t", "u", "r", "d", "a", "y">>>>[wd + 1]

short_day_name(wd) ==
    <<<<"S", "u", "n">>,
      <<"M", "o", "n">>,
      <<"T", "u", "e">>,
      <<"W", "e", "d">>,
      <<"T", "h", "u">>,
      <<"F", "r", "i">>,
      <<"S", "a", "t">>>>[wd + 1]

Digit(n) == <<"0", "1", "2", "3", "4", "5", "6", "7", "8", "9">>[n + 1]

RECURSIVE nat_to_string(_)
nat_to_string(n) ==
    IF n < 10 THEN <<Digit(n)>> ELSE Append(nat_to_string(n \div 10), Digit(n % 10))

\* number.to_string()
to_string(n) == IF n < 0 THEN <<"-">> \o nat_to_string(0 - n) ELSE nat_to_string(n)

Repeat(c, n) == [i \in 1 .. n |-> c]

\* pad::PadStr::pad(width, pad_char, alignment, false): never truncates
pad(string, width, pad_char, alignment) ==
    IF Len(string) >= width THEN string
    ELSE LET gap == width - Len(string) IN
         CASE alignment = "Left"  -> string \o Repeat(pad_char, gap)
           [] alignment = "Right" -> Repeat(pad_char, gap) \o string
           [] OTHER -> Repeat(pad_char, gap \div 2) \o string
                       \o Repeat(pad_char, gap - (gap \div 2))

unwrap_or(opt, default) == IF opt = None THEN default ELSE opt[1]

\* Arguments::format, as the text it appends
Arguments_format(a, string) ==
    pad(string, unwrap_or(a.width, 0), unwrap_or(a.pad_char, " "),
        unwrap_or(a.alignment, "Left"))

\* Field::format, as the text it appends to the buffer
Field_format(f, when) ==
    CASE f.kind = "Literal"       -> f.text
      [] f.kind = "Year"          -> Arguments_format(f.args, to_string(year(when)))
      [] f.kind = "YearOfCentury" -> Arguments_format(f.args, to_string(year_of_century(when)))
      [] f.kind = "MonthName"     ->
            IF f.long THEN Arguments_format(f.args, long_month_name(month(when)))
                      ELSE Arguments_format(f.args, short_month_name(month(when)))
      [] f.kind = "Day"           -> Arguments_format(f.args, to_string(day(when)))
      [] f.kind = "WeekdayName"   ->
            IF f.long THEN Arguments_format(f.args, long_day_name(weekday(when)))
                      ELSE Arguments_format(f.args, short_day_name(weekday(when)))

\* DateFormat::format
RECURSIVE DateFormat_format(_, _)
DateFormat_format(flds, when) ==
    IF flds = <<>> THEN <<>>
    ELSE Field_format(Head(flds), when) \o DateFormat_format(Tail(flds), when)

------------------------------------------------------------------------------
(* The parser and renderer as a state machine                               *)

ParseAlphabet   == {"{", "}", ":", "Y", "M", "a"}
GrammarAlphabet == {"{", "}", ":", "Y", "y", "M", "D", "E", "a"}

StringsUpTo(alphabet, n) == UNION {[1 .. k -> alphabet] : k \in 0 .. n}

Templates        == StringsUpTo(ParseAlphabet, MaxLen)
GrammarTemplates == StringsUpTo(GrammarAlphabet, MaxGrammarLen)

\* the dates a caller renders: 2015-09-13, 2000-02-29 and 1900-01-01
FormatDates ==
    { DaysSinceEpoch_from([year |-> 2015, month |-> 9, day |-> 13]),
      DaysSinceEpoch_from([year |-> 2000, month |-> 2, day |-> 29]),
      DaysSinceEpoch_from([year |-> 1900, month |-> 1, day |-> 1]) }

parser == [iter |-> iter, fields |-> fields, anchor |-> anchor]

InitFormat(templates) ==
    /\ input \in templates
    /\ iter = 0
    /\ fields = <<>>
    /\ anchor = None
    /\ pc = "scan"
    /\ result = [kind |-> "none"]
    /\ output = <<>>

\* The parser moves to s; DateFormat::parse returns once the loop is left.
Apply(s) ==
    /\ iter' = s.iter
    /\ fields' = s.fields
    /\ anchor' = s.anchor
    /\ pc' = IF s.done THEN "done" ELSE "scan"
    /\ result' = IF s.done THEN DateFormat_parse_result(s) ELSE result
    /\ UNCHANGED <<input, output, dateVars, clockVars>>

ScanOpen ==
    /\ pc = "scan"
    /\ next(input, iter) # None
    /\ next(input, iter)[1][2] = "{"
    /\ Apply(open_arm(input, parser, iter))

ScanClose ==
    /\ pc = "scan"
    /\ next(input, iter) # None
    /\ next(input, iter)[1][2] = "}"
    /\ Apply(close_arm(input, parser, iter))

ScanOther ==
    /\ pc = "scan"
    /\ next(input, iter) # None
    /\ next(input, iter)[1][2] \notin {"{", "}"}
    /\ Apply(other_arm(input, parser, iter))

ScanEnd ==
    /\ pc = "scan"
    /\ next(input, iter) = None
    /\ Apply(end_arm(input, parser))

\* DateFormat::format on a parsed template
Format ==
    /\ pc = "done"
    /\ result.kind = "Ok"
    /\ \E when \in FormatDates :
        output' = DateFormat_format(result.fields, when)
    /\ pc' = "formatted"
    /\ UNCHANGED <<input, iter, fields, anchor, result, dateVars, clockVars>>

IdleFormat ==
    /\ input = <<>>
    /\ iter = 0
    /\ fields = <<>>
    /\ anchor = None
    /\ pc = "idle"
    /\ result = [kind |-> "none"]
    /\ output = <<>>

------------------------------------------------------------------------------
(* Specifications                                                           *)

InitSpecDate == InitDate /\ IdleClock /\ IdleFormat
NextDate == YdCall \/ YdOfDate
SpecDate == InitSpecDate /\ [][NextDate]_vars

InitSpecClock == IdleDate /\ InitClock /\ IdleFormat
NextClock == SysTime
SpecClock == InitSpecClock /\ [][NextClock]_vars

Init == IdleDate /\ IdleClock /\ InitFormat(Templates)
Next == ScanOpen \/ ScanClose \/ ScanOther \/ ScanEnd \/ Format
Spec == Init /\ [][Next]_vars

InitGrammar == IdleDate /\ IdleClock /\ InitFormat(GrammarTemplates)
SpecGrammar == InitGrammar /\ [][Next]_vars

------------------------------------------------------------------------------
(* Reference definitions the properties are stated with                     *)

Returned == {"done", "formatted"}
Codes == {"Y", "y", "M", "D", "E"}
Braces == {"{", "}"}

Drop(s, n) == SubSeq(s, n + 1, Len(s))

\* the number of days of a calendar year
CalendarDaysInYear(y) == IF is_leap_year(y) THEN 366 ELSE 365

\* The template language of the documentation: literal characters, the
\* escapes {{ and }}, and fields {:c} with c one of the five codes.
RECURSIVE WellFormed(_)
WellFormed(s) ==
    IF s = <<>> THEN TRUE
    ELSE IF s[1] \notin Braces THEN WellFormed(Tail(s))
    ELSE IF Len(s) >= 2 /\ s[2] = s[1] THEN WellFormed(Drop(s, 2))
    ELSE IF Len(s) >= 4 /\ s[1] = "{" /\ s[2] = ":" /\ s[3] \in Codes /\ s[4] = "}"
         THEN WellFormed(Drop(s, 4))
    ELSE FALSE

\* The length of the group  { (: code)+ }  that s starts with, 0 if it
\* starts with none. i is the offset reached inside the group.
RECURSIVE GroupLen(_, _)
GroupLen(s, i) ==
    IF Len(s) >= i + 2 /\ s[i + 1] = ":" /\ s[i + 2] \in Codes
    THEN IF Len(s) >= i + 3 /\ s[i + 3] = "}" THEN i + 3 ELSE GroupLen(s, i + 2)
    ELSE 0

\* Templates free of errors when a group may repeat its `:code` part
RECURSIVE ErrorFree(_)
ErrorFree(s) ==
    IF s = <<>> THEN TRUE
    ELSE IF s[1] \notin Braces THEN ErrorFree(Tail(s))
    ELSE IF Len(s) >= 2 /\ s[2] = s[1] THEN ErrorFree(Drop(s, 2))
    ELSE IF s[1] = "{" /\ GroupLen(s, 1) > 0 THEN ErrorFree(Drop(s, GroupLen(s, 1)))
    ELSE FALSE

\* the offset at which the construct an error reports begins
ErrorStart(inp, e) ==
    CASE e.kind = "OpenCurlyBrace"  -> e.open_pos
      [] e.kind = "MissingField"    -> e.open_pos
      [] e.kind = "CloseCurlyBrace" -> e.close_pos
      [] e.kind = "InvalidChar"     ->
            LET opens == {o \in 0 .. e.pos - 1 : inp[o + 1] = "{"}
            IN  IF opens = {} THEN 0 - 1
                ELSE CHOOSE o \in opens : \A q \in opens : q <= o

\* the offset after the last character the scan has read when it reports e
ErrorEnd(inp, e) ==
    CASE e.kind = "OpenCurlyBrace"  -> Len(inp)
      [] e.kind = "MissingField"    -> e.close_pos + 1
      [] e.kind = "CloseCurlyBrace" ->
            IF e.close_pos + 2 <= Len(inp) THEN e.close_pos + 2 ELSE Len(inp)
      [] e.kind = "InvalidChar"     -> e.pos + 1

\* The offsets k of an unescaped `{` after which the template ends inside
\* the field: nothing, `:`, or `:` and a code follow.
UnterminatedAt(inp) ==
    {k \in 0 .. Len(inp) - 1 :
        /\ inp[k + 1] = "{"
        /\ WellFormed(SubSeq(inp, 1, k))
        /\ Drop(inp, k + 1) \in ({<<>>, <<":">>} \cup {<<":", c>> : c \in Codes})}

LiteralOnly(inp) == \A i \in 1 .. Len(inp) : inp[i] \notin Braces

\* the length of the longest prefix of s without a brace
RECURSIVE RunLen(_)
RunLen(s) == IF s = <<>> \/ s[1] \in Braces THEN 0 ELSE 1 + RunLen(Tail(s))

\* the offset after the first `}` of s, Len(s) if it has none
RECURSIVE AfterClose(_, _)
AfterClose(s, i) ==
    IF i >= Len(s) THEN Len(s)
    ELSE IF s[i + 1] = "}" THEN i + 1 ELSE AfterClose(s, i + 1)

\* The literal texts of a template, in order: each maximal run of
\* characters other than braces outside the groups, and one brace for each
\* escape.
RECURSIVE ExpectedLiterals(_)
ExpectedLiterals(s) ==
    IF s = <<>> THEN <<>>
    ELSE IF s[1] \notin Braces
         THEN <<SubSeq(s, 1, RunLen(s))>> \o ExpectedLiterals(Drop(s, RunLen(s)))
    ELSE IF Len(s) >= 2 /\ s[2] = s[1]
         THEN <<SubSeq(s, 1, 1)>> \o ExpectedLiterals(Drop(s, 2))
    ELSE IF s[1] = "{" THEN ExpectedLiterals(Drop(s, AfterClose(s, 1)))
    ELSE ExpectedLiterals(Tail(s))

IsLiteral(f) == f.kind = "Literal"
LiteralTexts(flds) == [i \in 1 .. Len(SelectSeq(flds, IsLiteral)) |->
                          SelectSeq(flds, IsLiteral)[i].text]

\* A Field variant as the renderer distinguishes them
Variant(f) ==
    IF f.kind \in {"MonthName", "WeekdayName"} THEN <<f.kind, f.long>> ELSE <<f.kind>>

\* the variants Field::format has an arm for
RenderedVariants ==
    { <<"Literal">>, <<"Year">>, <<"YearOfCentury">>, <<"Day">>,
      <<"MonthName", TRUE>>, <<"MonthName", FALSE>>,
      <<"WeekdayName", TRUE>>, <<"WeekdayName", FALSE>> }

ShortNameVariants == { <<"MonthName", FALSE>>, <<"WeekdayName", FALSE>> }

VariantsOf(r) ==
    IF r.kind = "Ok" THEN {Variant(r.fields[i]) : i \in 1 .. Len(r.fields)} ELSE {}

\* the variants DateFormat::parse returns for some template of the grammar
\* specification
ParsedVariants == UNION {VariantsOf(DateFormat_parse(t)) : t \in GrammarTemplates}

------------------------------------------------------------------------------
(* Properties                                                               *)

\* C1: whenever Date::yd accepts (year, yearday), the Date it returns has
\* that yearday and that year.
C1_RoundTripFromOrdinal ==
    (ydCall.op = "yd" /\ ydRes.kind = "Ok") =>
        /\ yearday(ydRes.date) = ydCall.yearday
        /\ year(ydRes.date) = ydCall.year

\* C2: for every Date d, Date::yd(d.year(), d.yearday()) is Ok and equal to
\* d; yd(2015, 1) is 1 January 2015 and yd(2015, 256) is 13 September 2015.
C2_RoundTripFromDate ==
    /\ (ydCall.op = "yeardays" /\ ydRes.kind # "pending") =>
            ydRes = [kind |-> "Ok", date |-> ydCall.ymd]
    /\ (ydCall = [op |-> "yd", year |-> 2015, yearday |-> 1] /\ ydRes.kind # "pending") =>
            /\ ydRes.kind = "Ok"
            /\ ymd_of(ydRes.date) = [year |-> 2015, month |-> 1, day |-> 1]
    /\ (ydCall = [op |-> "yd", year |-> 2015, yearday |-> 256] /\ ydRes.kind # "pending") =>
            /\ ydRes.kind = "Ok"
            /\ ymd_of(ydRes.date) = [year |-> 2015, month |-> 9, day |-> 13]

\* C2 witness: the last day of a leap year has been rebuilt from its
\* yearday 366.
C2_Witness ==
    /\ ydCall.op = "yeardays"
    /\ ydRes.kind = "Ok"
    /\ yearday(ydCall.ymd) = 366

\* C3: a yearday below 0 or above the number of days of the year is answered
\* with a RangeError value carrying it, and no Date is built.
C3_RangeErrorBuildsNoDate ==
    (/\ ydCall.op = "yd"
     /\ ydRes.kind # "pending"
     /\ (ydCall.yearday < 0 \/ ydCall.yearday > CalendarDaysInYear(ydCall.year))) =>
        /\ ydRes.kind = "RangeError"
        /\ ydRes.value = ydCall.yearday
        /\ "date" \notin DOMAIN ydRes

\* C3 witness: yearday 366 of a year of 365 days has been rejected.
C3_Witness ==
    /\ ydCall.op = "yd"
    /\ ydCall.yearday = 366
    /\ ~is_leap_year(ydCall.year)
    /\ ydRes.kind = "RangeError"

\* C4: a template that DateFormat::parse accepts is made of literal
\* characters, escapes and groups of the form {:c} only: after `{:` and a
\* code nothing but `}` is accepted.
C4_FieldClosedAfterCode ==
    (pc \in Returned /\ result.kind = "Ok") => WellFormed(input)

\* C5: DateFormat::parse returns either all the fields or one error without
\* any field; the error is the first of the scan: what precedes the
\* construct it reports is free of errors, and nothing after it was read.
C5_FailFast ==
    pc \in Returned =>
        /\ result.kind \in {"Ok", "Err"}
        /\ result.kind = "Ok" =>
              /\ DOMAIN result = {"kind", "fields"}
              /\ result.fields = fields
              /\ iter = Len(input)
        /\ result.kind = "Err" =>
              /\ DOMAIN result = {"kind", "err"}
              /\ ErrorStart(input, result.err) \in 0 .. Len(input) - 1
              /\ ErrorFree(SubSeq(input, 1, ErrorStart(input, result.err)))
              /\ iter = ErrorEnd(input, result.err)

\* C5 witness: an error has been returned after fields had been compiled.
C5_Witness ==
    /\ pc = "done"
    /\ result.kind = "Err"
    /\ Len(fields) >= 2
    /\ iter < Len(input)

\* C6: when the template ends inside a field, the error is OpenCurlyBrace at
\* the offset of the `{` that opened it.
C6_OpenCurlyBraceOffset ==
    pc \in Returned =>
        \A k \in UnterminatedAt(input) :
            result = [kind |-> "Err", err |-> OpenCurlyBrace(k)]

\* C6 witness: a template with a literal and a complete field before the
\* unterminated one has been parsed.
C6_Witness ==
    /\ pc = "done"
    /\ \E k \in UnterminatedAt(input) : k >= 5
    /\ Len(fields) = 2

\* C7: a template without braces parses and renders to itself, whatever the
\* Date.
C7_LiteralTemplateRendersItself ==
    (pc \in Returned /\ LiteralOnly(input)) =>
        /\ result.kind = "Ok"
        /\ pc = "formatted" => output = input

\* C7 witness: a literal template of several characters has been rendered.
C7_Witness ==
    /\ pc = "formatted"
    /\ LiteralOnly(input)
    /\ Len(input) >= 3

\* C9: the Literal fields of a successful parse are, in order, the maximal
\* brace-free runs outside the groups and one brace per escape; none is
\* empty.
C9_LiteralCoalescing ==
    (pc \in Returned /\ result.kind = "Ok") =>
        /\ LiteralTexts(result.fields) = ExpectedLiterals(input)
        /\ \A i \in 1 .. Len(result.fields) :
              IsLiteral(result.fields[i]) => result.fields[i].text # <<>>

\* C9 witness: a run of two characters, an escape and another run have been
\* parsed into three Literal fields.
C9_Witness ==
    /\ pc = "done"
    /\ result.kind = "Ok"
    /\ Len(result.fields) = 3
    /\ IsLiteral(result.fields[1]) /\ Len(result.fields[1].text) = 2
    /\ result.fields[2] = Literal(<<"{">>)
    /\ IsLiteral(result.fields[3]) /\ Len(result.fields[3].text) = 2

\* C8: sys_time returns the seconds and the millisecond of the second,
\* floor(tv_nsec / 1,000,000), which lies in 0 .. 999.
C8_MillisecondOfSecond ==
    now # None =>
        /\ now[1][1] = tv.tv_sec
        /\ now[1][2] = tv.tv_nsec \div 1000000
        /\ now[1][2] \in 0 .. 999

\* C10 as stated: every variant the renderer handles is returned by
\* DateFormat::parse for some template (looked up once a parse has returned).
C10_EveryVariantParsed ==
    pc \in Returned => RenderedVariants \subseteq ParsedVariants

\* C10 amended: the variants returned by DateFormat::parse are exactly the
\* rendered ones other than the short names, and no parse returns a short
\* name.
C10_LongVariantsParsed ==
    /\ ParsedVariants = RenderedVariants \ ShortNameVariants
    /\ (pc \in Returned /\ result.kind = "Ok") =>
            \A i \in 1 .. Len(result.fields) :
                Variant(result.fields[i]) \in RenderedVariants \ ShortNameVariants

\* C10 witness: a parse has returned a YearOfCentury field.
C10_Witness ==
    /\ pc = "done"
    /\ result.kind = "Ok"
    /\ \E i \in 1 .. Len(result.fields) : Variant(result.fields[i]) = <<"YearOfCentury">>

====
